---- MODULE Spec2Model ----
(***************************************************************************)
(* Fantia-Novel-Downloader: the orchestrator (main), the identifier        *)
(* collector (get_all_post_ids) and the post fetcher                       *)
(* (scrape_and_save_post_api) of both localized variants                   *)
(* (Fantia-novel-downloader_en.py, Fantia-novel-downloader_ja.py).         *)
(*                                                                         *)
(* Text is a sequence of characters; an optional value (a key that may be  *)
(* absent from a dict, a JSON null, Python's None) is a sequence of length *)
(* 0 or 1.  The web site, the API and the file system are the environment: *)
(* every response is drawn from a bounded set when the request is made.    *)
(***************************************************************************)
EXTENDS Integers, Sequences, FiniteSets, TLC

\* ------------------------------------------------------------------ bounds
\* Lines of the target list file.
MaxLines == 2
\* Anchors selected on one listing page.
MaxLinks == 2
\* Listing page URLs reachable by next-page links from one listing URL.
MaxPages == 2
\* Identifiers of one collection recorded in `seen`.
MaxSeen == 3
\* Content segments of one post record.
MaxSegs == 2

\* ----------------------------------------------------------------- options
None == << >>
Some(x) == << x >>
IsSome(o) == o # None
Val(o) == o[1]
Opt(S) == {None} \cup {Some(x) : x \in S}
\* Python truthiness of an optional text: absent, None and "" are falsy.
TruthyText(o) == IsSome(o) /\ Val(o) # << >>

Range(s) == {s[k] : k \in DOMAIN s}
SeqsUpTo(S, n) == UNION {[1..k -> S] : k \in 0..n}

\* --------------------------------------------------------------- variables
VARIABLES
  variant,      \* "en" or "ja": which of the two programs runs
  pc,           \* position of main
  config,       \* config.ini as load_config found it (None: no file)
  scope,        \* download_scope after .lower()
  urls,         \* target URLs loaded from the list file
  i,            \* index in urls of the target being processed (0: none yet)
  post_ids,     \* get_all_post_ids: identifiers collected so far / returned
  current_url,  \* get_all_post_ids: page to scan next (None: loop ended)
  j,            \* index in post_ids of the next post to download
  dirs,         \* directories created, as paths below root_output_dir
  files,        \* files written: path -> content
  cfgWritten,   \* the config.ini template was generated by this run
  net,          \* the last two network events: "page" (a listing page on
                \* which post links were found), "stop_page" (a listing page
                \* that ended the collection at once), "api", "sleep"
  lastPage,     \* current target: kind and marker of the last page fetched
  requests,     \* HTTP requests issued for the current target
  seen,         \* identifiers the running collection met, in order (if kept)
  scans,        \* "kept": seen is complete; "cut": it left identifiers out
  collected,    \* current target: what get_all_post_ids returned (None: not run)
  calls,        \* current target: identifiers the fetcher was invoked with
  report,       \* current target: what main printed about it
  collLog,      \* what the last collection printed when it ended
  fetchLog,     \* what the last fetcher call printed when it ended
  last,         \* the last fetcher call: arguments, response, outcome
  keyWaits,     \* times main waited for the keypress
  crashed       \* main's except clause printed a trace

vars == << variant, pc, config, scope, urls, i, post_ids, current_url, j, dirs,
           files, cfgWritten, net, lastPage, requests, seen, scans, collected,
           calls, report, collLog, fetchLog, last, keyWaits, crashed >>

\* ------------------------------------------------------------------- text
\* sanitize_filename: the characters of r'[\\/:*?"<>|]'.
InvalidChars == {"\\", "/", ":", "*", "?", "\"", "<", ">", "|"}
\* The replacement character: '-' in the English program, the full-width
\* hyphen in the Japanese one.
Placeholder(v) == IF v = "en" THEN "-" ELSE "FULLWIDTH-HYPHEN"
sanitize_filename(v, filename) ==
  [k \in DOMAIN filename |->
     IF filename[k] \in InvalidChars THEN Placeholder(v) ELSE filename[k]]

\* "\n\n".join(parts)
RECURSIVE Join(_)
Join(parts) ==
  IF parts = << >> THEN << >>
  ELSE IF Len(parts) = 1 THEN parts[1]
  ELSE parts[1] \o << "\n", "\n" >> \o Join(Tail(parts))

\* ----------------------------------------------------------- post fetcher
\* post_data.get("post_contents", []): the segments, [] when the key is absent
Contents(post) ==
  IF IsSome(post.post_contents) THEN Val(post.post_contents) ELSE << >>

\* c.get("plan") and c["plan"].get("price", 0) > 0
\* (a plan is its optional price; an absent price counts as 0)
PlanPrice(c) == IF IsSome(Val(c.plan)) THEN Val(Val(c.plan)) ELSE 0
SegmentPaidLoose(c) == IsSome(c.plan) /\ PlanPrice(c) >= 0
SegmentPaid(c) == IsSome(c.plan) /\ PlanPrice(c) > 0

\* is_paid = any(... for c in post_data.get("post_contents", []))
IsPaid(post) == \E k \in DOMAIN Contents(post) : SegmentPaid(Contents(post)[k])

\* The two scope skips.
ScopeSkipSwapped(sc, is_paid) ==
  IF sc = "paid" /\ is_paid THEN "skip_free"
  ELSE IF sc = "free" /\ ~is_paid THEN "skip_paid"
  ELSE "pass"
ScopeSkip(sc, is_paid) ==
  IF sc = "paid" /\ ~is_paid THEN "skip_free"
  ELSE IF sc = "free" /\ is_paid THEN "skip_paid"
  ELSE "pass"

\* content_parts = [c["comment"] for c in post_contents if c.get("comment")]
RECURSIVE ContentParts(_)
ContentParts(cs) ==
  IF cs = << >> THEN << >>
  ELSE IF TruthyText(Head(cs).comment)
       THEN << Val(Head(cs).comment) >> \o ContentParts(Tail(cs))
       ELSE ContentParts(Tail(cs))

\* full_content: None, or the text of the first source that yields one
ExtractBodyTopFirst(post) ==
  IF TruthyText(post.comment) THEN post.comment
  ELSE IF TruthyText(post.blog_comment) THEN post.blog_comment
  ELSE IF IsSome(post.post_contents) /\ Val(post.post_contents) # << >>
          /\ ContentParts(Val(post.post_contents)) # << >>
       THEN Some(Join(ContentParts(Val(post.post_contents))))
  ELSE None
ExtractBody(post) ==
  IF IsSome(post.post_contents) /\ Val(post.post_contents) # << >>
     /\ ContentParts(Val(post.post_contents)) # << >>
  THEN Some(Join(ContentParts(Val(post.post_contents))))
  ELSE IF TruthyText(post.comment) THEN post.comment
  ELSE IF TruthyText(post.blog_comment) THEN post.blog_comment
  ELSE None

\* `not post_data`: the key is absent or null, or the object is empty
EmptyPost ==
  [title |-> None, post_contents |-> None, comment |-> None,
   blog_comment |-> None, fanclub |-> None]
NoPostData(data) == data.post = None \/ Val(data.post) = EmptyPost

\* post_data.get("title", f"No Title {post_id}")
TitleOf(post, post_id) ==
  IF IsSome(post.title) THEN Val(post.title)
  ELSE << "No Title ", ToString(post_id) >>

\* post_data.get("fanclub", {}).get("fanclub_name_with_creator_name",
\*                                  f"fanclub_{...get('id')}")
FanclubName(post) ==
  IF IsSome(post.fanclub) /\ IsSome(Val(post.fanclub).name)
  THEN Val(Val(post.fanclub).name)
  ELSE IF IsSome(post.fanclub)
       THEN << "fanclub_", ToString(Val(post.fanclub).id) >>
       ELSE << "fanclub_", "None" >>

\* <root>/<sanitized creator name>/<sanitized title>.txt
OutputSubdir(v, post) == sanitize_filename(v, FanclubName(post))
FilePath(v, post, post_id) ==
  [dir |-> OutputSubdir(v, post),
   file |-> sanitize_filename(v, TitleOf(post, post_id)) \o << ".txt" >>]

\* the header (title, canonical post URL) and the body
FileContent(post, post_id, body) ==
  [title |-> TitleOf(post, post_id), url |-> post_id, body |-> body]

WriteFile(fl, path, content) ==
  [p \in DOMAIN fl \cup {path} |-> IF p = path THEN content ELSE fl[p]]

\* What one call leaves behind.  log: the line it printed last; is_paid and
\* body: the values it computed (None: not reached); extraction: it reached
\* the body-text extraction; raised: an exception left the function.
Outcome(lg, d, fl, paid, body, extr) ==
  [log |-> lg, dirs |-> d, files |-> fl, is_paid |-> paid, body |-> body,
   extraction |-> extr, raised |-> FALSE]

\* The handler of an exception no specific clause names: `except Exception`.
UnexpectedRaises(d, fl, paid, body, extr) ==
  [log |-> "unexpected", dirs |-> d, files |-> fl, is_paid |-> paid,
   body |-> body, extraction |-> extr, raised |-> TRUE]
Unexpected(d, fl, paid, body, extr) ==
  Outcome("unexpected", d, fl, paid, body, extr)

\* response.json() failing: requests >= 2.27 raises its own JSONDecodeError,
\* which is a RequestException as well as a json.JSONDecodeError, so the
\* first except clause takes it; older versions raise the json one.
JsonErrorLog(jsonErrIsRequestException) ==
  IF jsonErrIsRequestException THEN "api_fail" ELSE "json_fail"

\* scrape_and_save_post_api(post_id, headers, csrf_token, root_output_dir, scope)
\* resp: the API's answer; fs: what the file system does to makedirs/open;
\* lib: whether the installed requests raises its own JSONDecodeError.
scrape_and_save_post_api(v, post_id, sc, resp, fs, lib, d, fl) ==
  IF resp.kind = "error" THEN Outcome("api_fail", d, fl, None, None, FALSE)
  ELSE IF resp.kind = "not_json"
       THEN Outcome(JsonErrorLog(lib), d, fl, None, None, FALSE)
  ELSE IF resp.kind = "not_object" THEN Unexpected(d, fl, None, None, FALSE)
  ELSE IF NoPostData(resp) THEN Outcome("no_post", d, fl, None, None, FALSE)
  ELSE
    LET post == Val(resp.post)
        is_paid == IsPaid(post)
        skip == ScopeSkip(sc, is_paid)
        full_content == ExtractBody(post)
        subdir == << OutputSubdir(v, post) >>
    IN IF skip # "pass" THEN Outcome(skip, d, fl, Some(is_paid), None, FALSE)
       ELSE IF full_content = None
            THEN Outcome("no_text", d, fl, Some(is_paid), None, TRUE)
       ELSE IF fs = "mkdir_fail"
            THEN Unexpected(d, fl, Some(is_paid), full_content, TRUE)
       ELSE IF fs = "open_fail"
            THEN Unexpected(d \cup {subdir}, fl, Some(is_paid), full_content, TRUE)
       ELSE Outcome("saved", d \cup {subdir},
                    WriteFile(fl, FilePath(v, post, post_id),
                              FileContent(post, post_id, Val(full_content))),
                    Some(is_paid), full_content, TRUE)

\* -------------------------------------------------------------------- URLs
\* A URL is its host, the segments of its path (each a text; a trailing
\* empty segment is a trailing slash) and its optional query.  An href is
\* the result of href.split('/').
Posts == << "posts" >>
Fanclubs == << "fanclubs" >>
Digits == {"0", "1", "2", "3", "4", "5", "6", "7", "8", "9"}
DigitVal(c) == CHOOSE n \in 0..9 : ToString(n) = c

\* int(text): the decimal value, None for the ValueError
RECURSIVE Decimal(_)
Decimal(t) == IF t = << >> THEN 0 ELSE 10 * Decimal(SubSeq(t, 1, Len(t) - 1)) + DigitVal(t[Len(t)])
ParseInt(t) ==
  IF t # << >> /\ \A k \in DOMAIN t : t[k] \in Digits THEN Some(Decimal(t)) ELSE None

\* '/<word>/' in url: a path segment equal to word with a slash after it
ContainsDir(url, word) == \E k \in 1..(Len(url.path) - 1) : url.path[k] = word

\* path.strip('/').split('/')[-1]
RECURSIVE StripSlashes(_)
StripSlashes(path) ==
  IF path # << >> /\ path[Len(path)] = << >>
  THEN StripSlashes(SubSeq(path, 1, Len(path) - 1))
  ELSE path
LastSegment(path) ==
  IF StripSlashes(path) = << >> THEN << >>
  ELSE StripSlashes(path)[Len(StripSlashes(path))]

\* urljoin(fanclub_url, href) for the href of a pagination link "?page=k"
urljoin(base, page) == [host |-> base.host, path |-> base.path, query |-> Some(page)]

\* ------------------------------------------------------ identifier collector
\* href and '/posts/' in href
IsPostHref(href) == \E k \in 2..(Len(href) - 1) : href[k] = Posts

\* One anchor: int(href.split('/')[-1]) when the href is a post link, None
\* when the anchor is passed over (no href, no '/posts/', ValueError).
LinkId(link) ==
  IF IsSome(link) /\ IsPostHref(Val(link)) THEN ParseInt(Val(link)[Len(Val(link))])
  ELSE None

\* if post_id not in post_ids: post_ids.append(post_id)
AppendAlways(ids, post_id) == Append(ids, post_id)
AppendNew(ids, post_id) ==
  IF post_id \in Range(ids) THEN ids ELSE Append(ids, post_id)

\* for link in links: ...
RECURSIVE ScanLinks(_, _)
ScanLinks(ids, links) ==
  IF links = << >> THEN ids
  ELSE ScanLinks(IF IsSome(LinkId(Head(links)))
                 THEN AppendNew(ids, Val(LinkId(Head(links))))
                 ELSE ids,
                 Tail(links))

\* next_page_tag and next_page_tag.get('href'): the selector matches the
\* rel="next" anchor of a pagination item that is not disabled
NextUrl(fanclub_url, page) ==
  IF page.next.state = "enabled" /\ IsSome(page.next.href)
  THEN Some(urljoin(fanclub_url, Val(page.next.href)))
  ELSE None

\* not frontend_params_tag or '"is_logged_in": false' in frontend_params_tag.string
LoginFailedLax(page) == page.marker = "logged_out"
LoginFailed(page) == page.marker \in {"absent", "logged_out"}

\* ------------------------------------------------------------- environment
Variants == {"en", "ja"}

\* config.ini.  The template's credentials carry the text main looks for.
PasteMarker(v) == IF v = "en" THEN "Please paste" ELSE "haritsukete kudasai"
TemplateValue(v) == << PasteMarker(v), " ..." >>
ValidValue == << "k", "=", "v" >>
Credentials(v) == Opt({<< >>, TemplateValue(v), ValidValue})
ConfigFiles(v) ==
  Opt([cookie : Credentials(v), x_csrf_token : Credentials(v),
       download_scope : Opt({"Paid", "both"}),
       request_delay : Opt({"abc"})])
ValidConfig(sc) ==
  Some([cookie |-> Some(ValidValue), x_csrf_token |-> Some(ValidValue),
        download_scope |-> IF sc = "all" THEN None
                           ELSE IF sc = "paid" THEN Some("Paid") ELSE Some("free"),
        request_delay |-> None])

\* The target list file: None when it does not exist, else its lines; a line
\* is None when blank, else a URL.
Url(host, path) == [host |-> host, path |-> path, query |-> None]
ListingUrl == Url("fantia.jp", << Fanclubs, << "1" >>, Posts >>)
PostUrl == Url("fantia.jp", << Posts, << "1", "0" >> >>)
BadPostUrl == Url("fantia.jp", << Posts, << "x" >> >>)
OtherUrl == Url("fantia.jp", << << "about" >> >>)
ForeignUrl == Url("example.com", << Posts, << "1", "0" >> >>)
Lines == Opt({ListingUrl, PostUrl, BadPostUrl, OtherUrl, ForeignUrl})
LinkFiles == Opt(SeqsUpTo(Lines, MaxLines))

\* Listing pages.  AllPages is every shape of page the collector tells
\* apart; ListingPages are the pages of the whole-program runs: no anchor,
\* one post or two posts in either order, and a next-page link that is
\* absent or leads to the listing's second page.
PostHref(t) == << << >>, Posts, t >>
PostAnchors == {Some(PostHref(<< "1", "0" >>)), Some(PostHref(<< "1", "1" >>))}
Anchors ==
  PostAnchors
  \cup Opt({<< << >>, << "about" >> >>, PostHref(<< "0", "1", "0" >>),
            PostHref(<< "x" >>)})
NoNext == [state |-> "absent", href |-> None]
NextLinks ==
  {NoNext, [state |-> "disabled", href |-> Some(1)], [state |-> "enabled", href |-> None]}
  \cup [state : {"enabled"}, href : {Some(p) : p \in 1..MaxPages}]
NoPage(kind, marker) ==
  [kind |-> kind, marker |-> marker, links |-> << >>, next |-> NoNext]
FailingPages ==
  {NoPage("error", "absent")}
  \cup {NoPage("ok", m) : m \in {"absent", "logged_out", "empty"}}
AllPages ==
  FailingPages
  \cup [kind : {"ok"}, marker : {"logged_in"},
        links : SeqsUpTo(Anchors, MaxLinks), next : NextLinks]
Anchor10 == Some(PostHref(<< "1", "0" >>))
Anchor11 == Some(PostHref(<< "1", "1" >>))
ListingPages ==
  FailingPages
  \cup [kind : {"ok"}, marker : {"logged_in"},
        links : {<< >>, << Anchor10 >>, << Anchor10, Anchor11 >>,
                 << Anchor11, Anchor10 >>},
        next : {NoNext, [state |-> "enabled", href |-> Some(1)]}]

\* API responses.  ApiResponses are those of the whole-program runs.
Segment(plan, comment) == [plan |-> plan, comment |-> comment]
Post(title, contents, comment, blog, fanclub) ==
  [title |-> title, post_contents |-> contents, comment |-> comment,
   blog_comment |-> blog, fanclub |-> fanclub]
Json(post) == [kind |-> "json", post |-> post]
NoJson(kind) == [kind |-> kind, post |-> None]
Creator == Some([name |-> Some(<< "c", ":" >>), id |-> 7])
FreePost ==
  Post(Some(<< "a", "/" >>), Some(<< Segment(None, Some(<< "A" >>)) >>), None, None,
       Creator)
PaidPost ==
  Post(Some(<< "a", "/" >>), Some(<< Segment(Some(Some(500)), Some(<< "A" >>)) >>),
       None, None, Creator)
TextlessPost ==
  Post(None, Some(<< Segment(Some(None), None) >>), None, Some(<< >>), None)
ApiResponses ==
  {NoJson("error"), NoJson("not_json"), NoJson("not_object"), Json(None),
   Json(Some(FreePost)), Json(Some(PaidPost)), Json(Some(TextlessPost))}

\* Every post record of the bounded shape, for the fetcher on its own.
Plans == {None, Some(Some(-1)), Some(Some(0)), Some(Some(500))}
Texts == Opt({<< "A" >>, << "B" >>})
Segments == [plan : Plans, comment : Texts]
AllPosts ==
  [title : {Some(<< "a", "/" >>)},
   post_contents : Opt(SeqsUpTo(Segments, MaxSegs)),
   comment : Opt({<< >>, << "C" >>}),
   blog_comment : Opt({<< "D" >>}),
   fanclub : {Creator}]
\* What the file system does to os.makedirs and open.
FileSystems == {"ok", "mkdir_fail", "open_fail"}
AllApiResponses ==
  {NoJson("error"), NoJson("not_json"), NoJson("not_object"), Json(None)}
  \cup {Json(Some(p)) : p \in AllPosts}

\* -------------------------------------------------------------------- main
RootDir == << >>
NoRequests == [pages |-> 0, api |-> 0]
Push(events, e) == IF Len(events) < 2 THEN Append(events, e) ELSE << events[2], e >>

Init ==
  /\ variant \in Variants
  /\ pc = "start"
  /\ config = None
  /\ scope = "all"
  /\ urls = << >>
  /\ i = 0
  /\ post_ids = << >>
  /\ current_url = None
  /\ j = 0
  /\ dirs = {}
  /\ files = << >>
  /\ cfgWritten = FALSE
  /\ net = << >>
  /\ lastPage = None
  /\ requests = NoRequests
  /\ seen = << >>
  /\ scans = "kept"
  /\ collected = None
  /\ calls = << >>
  /\ report = "none"
  /\ collLog = "none"
  /\ fetchLog = "none"
  /\ last = None
  /\ keyWaits = 0
  /\ crashed = FALSE

\* str.lower() of the scope values
Lower(t) == IF t = "Paid" THEN "paid" ELSE t

\* settings_conf.get('download_scope', 'all').lower()
ScopeOf(cfg) ==
  IF IsSome(cfg.download_scope) THEN Lower(Val(cfg.download_scope)) ELSE "all"

\* "Please paste" in value
HasMarker(v, value) == PasteMarker(v) \in Range(value)

\* Lines 243-255 of main: "raise" when an expression raises (float() of the
\* delay, `in` on a missing option), "auth" and "scope" for the two error
\* returns, "ok" when main goes on.
ValidateAcceptsEmpty(v, cfg) ==
  IF IsSome(cfg.request_delay) /\ Val(cfg.request_delay) = "abc" THEN "raise"
  ELSE IF cfg.cookie = None THEN "raise"
  ELSE IF HasMarker(v, Val(cfg.cookie)) THEN "auth"
  ELSE IF cfg.x_csrf_token = None THEN "raise"
  ELSE IF HasMarker(v, Val(cfg.x_csrf_token)) THEN "auth"
  ELSE IF ScopeOf(cfg) \notin {"all", "paid", "free"} THEN "scope"
  ELSE "ok"
Validate(v, cfg) ==
  IF IsSome(cfg.request_delay) /\ Val(cfg.request_delay) = "abc" THEN "raise"
  ELSE IF cfg.cookie = None THEN "raise"
  ELSE IF HasMarker(v, Val(cfg.cookie)) THEN "auth"
  ELSE IF cfg.x_csrf_token = None THEN "raise"
  ELSE IF HasMarker(v, Val(cfg.x_csrf_token)) THEN "auth"
  ELSE IF Val(cfg.cookie) = << >> \/ Val(cfg.x_csrf_token) = << >> THEN "auth"
  ELSE IF ScopeOf(cfg) \notin {"all", "paid", "free"} THEN "scope"
  ELSE "ok"

\* config = load_config() and the validation of its values
LoadConfig ==
  /\ pc = "start"
  /\ \E file \in ConfigFiles(variant) :
       /\ config' = file
       /\ IF file = None
          THEN /\ cfgWritten' = TRUE
               /\ pc' = "finally"
               /\ UNCHANGED << scope, crashed >>
          ELSE /\ cfgWritten' = FALSE
               /\ scope' = ScopeOf(Val(file))
               /\ crashed' = (Validate(variant, Val(file)) = "raise")
               /\ pc' = IF Validate(variant, Val(file)) = "ok"
                        THEN "load_urls" ELSE "finally"
  /\ UNCHANGED << variant, urls, i, post_ids, current_url, j, dirs, files, net,
                  lastPage, requests, seen, scans, collected, calls, report, collLog,
                  fetchLog, last, keyWaits >>

\* [line.strip() for line in f if line.strip() and "fantia.jp" in line]
RECURSIVE LoadLines(_)
LoadLines(lines) ==
  IF lines = << >> THEN << >>
  ELSE IF IsSome(Head(lines)) /\ Val(Head(lines)).host = "fantia.jp"
       THEN << Val(Head(lines)) >> \o LoadLines(Tail(lines))
       ELSE LoadLines(Tail(lines))

\* Reading the list file, then os.makedirs(root_dir, exist_ok=True)
LoadUrls ==
  /\ pc = "load_urls"
  /\ \E file \in LinkFiles, fs \in {"ok", "mkdir_fail"} :
       IF file = None \/ LoadLines(Val(file)) = << >>
       THEN /\ pc' = "finally"
            /\ UNCHANGED << urls, dirs, crashed >>
       ELSE /\ urls' = LoadLines(Val(file))
            /\ IF fs = "ok"
               THEN /\ dirs' = dirs \cup {RootDir}
                    /\ pc' = "loop"
                    /\ UNCHANGED crashed
               ELSE /\ crashed' = TRUE
                    /\ pc' = "finally"
                    /\ UNCHANGED dirs
  /\ UNCHANGED << variant, config, scope, i, post_ids, current_url, j, files,
                  cfgWritten, net, lastPage, requests, seen, scans, collected, calls,
                  report, collLog, fetchLog, last, keyWaits >>

\* The branch main takes for a target: the English program tells listing,
\* single-post and other URLs apart, the Japanese one collects from every URL.
BranchOfJa(url) == "listing"
BranchOfEn(url) ==
  IF ContainsDir(url, Fanclubs) THEN "listing"
  ELSE IF ContainsDir(url, Posts) THEN "post"
  ELSE "other"
BranchOf(v, url) == IF v = "en" THEN BranchOfEn(url) ELSE BranchOfJa(url)

\* The head of `for url in urls` for a target that goes to get_all_post_ids
StartListing ==
  /\ pc = "loop"
  /\ i < Len(urls)
  /\ BranchOf(variant, urls[i + 1]) = "listing"
  /\ i' = i + 1
  /\ post_ids' = << >>
  /\ current_url' = Some(urls[i + 1])
  /\ seen' = << >>
  /\ scans' = "kept"
  /\ lastPage' = None
  /\ requests' = NoRequests
  /\ collected' = None
  /\ calls' = << >>
  /\ report' = "none"
  /\ collLog' = "none"
  /\ fetchLog' = "none"
  /\ j' = 0
  /\ pc' = "collect"
  /\ UNCHANGED << variant, config, scope, urls, dirs, files, cfgWritten, net,
                  last, keyWaits, crashed >>

\* The identifiers one page shows, in anchor order (repeats included).
RECURSIVE PageIds(_)
PageIds(links) ==
  IF links = << >> THEN << >>
  ELSE IF IsSome(LinkId(Head(links)))
       THEN << Val(LinkId(Head(links))) >> \o PageIds(Tail(links))
       ELSE PageIds(Tail(links))

\* time.sleep(delay) at the end of a pass of the collector's loop, and after
\* a call of the fetcher in main
NoSleep(events) == events
SleepAfterScan(events) == Push(events, "sleep")
SleepAfterPost(events) == Push(events, "sleep")

\* One pass of `while current_url` in get_all_post_ids, up to the return
\* when the pass ends the function.  keep: the identifiers met are recorded.
ScanPageFrom(pages, keep) ==
  /\ pc = "collect"
  /\ IsSome(current_url)
  /\ \E page \in pages :
       /\ requests' = [requests EXCEPT !.pages = IF @ >= MaxPages THEN @ ELSE @ + 1]
       /\ lastPage' = Some([kind |-> page.kind, marker |-> page.marker])
       /\ IF page.kind = "error"
          THEN /\ collLog' = "fetch_failed"
               /\ post_ids' = << >>
               /\ pc' = "collected"
               /\ net' = Push(net, "stop_page")
               /\ UNCHANGED << current_url, seen, scans, report, crashed >>
          ELSE IF LoginFailed(page)
          THEN /\ collLog' = "login_failed"
               /\ post_ids' = << >>
               /\ pc' = "collected"
               /\ net' = Push(net, "stop_page")
               /\ UNCHANGED << current_url, seen, scans, report, crashed >>
          ELSE IF page.marker = "empty"
          THEN /\ crashed' = TRUE
               /\ report' = "crashed"
               /\ pc' = "finally"
               /\ net' = Push(net, "stop_page")
               /\ UNCHANGED << current_url, seen, scans, post_ids, collLog >>
          ELSE IF page.links = << >>
          THEN /\ collLog' = "no_links"
               /\ pc' = "collected"
               /\ net' = Push(net, "stop_page")
               /\ UNCHANGED << current_url, seen, scans, post_ids, report, crashed >>
          ELSE /\ post_ids' = ScanLinks(post_ids, page.links)
               /\ IF keep /\ scans = "kept"
                     /\ Len(seen) + Len(PageIds(page.links)) <= MaxSeen
                  THEN seen' = seen \o PageIds(page.links) /\ UNCHANGED scans
                  ELSE scans' = (IF keep THEN "cut" ELSE scans) /\ UNCHANGED seen
               /\ current_url' = NextUrl(urls[i], page)
               /\ collLog' = IF NextUrl(urls[i], page) = None THEN "last_page" ELSE collLog
               /\ pc' = IF NextUrl(urls[i], page) = None THEN "collected" ELSE "collect"
               /\ net' = SleepAfterScan(Push(net, "page"))
               /\ UNCHANGED << report, crashed >>
  /\ UNCHANGED << variant, config, scope, urls, i, j, dirs, files, cfgWritten,
                  collected, calls, fetchLog, last, keyWaits >>
ScanPage == ScanPageFrom(ListingPages, FALSE)

\* post_ids = get_all_post_ids(...); if not post_ids: ...; continue
AfterCollect ==
  /\ pc = "collected"
  /\ collected' = Some(post_ids)
  /\ IF post_ids = << >>
     THEN /\ report' = "warn_failed_ids"
          /\ pc' = "loop"
          /\ UNCHANGED j
     ELSE /\ report' = "downloading"
          /\ pc' = "download"
          /\ j' = 1
  /\ UNCHANGED << variant, config, scope, urls, i, post_ids, current_url, dirs,
                  files, cfgWritten, net, lastPage, requests, seen, scans, calls,
                  collLog,
                  fetchLog, last, keyWaits, crashed >>

\* scrape_and_save_post_api(post_id, ...) followed by time.sleep(delay), as
\* main calls them; keep: the call is recorded in `last`.  The file system
\* matters to a call that got a JSON object, the version of requests to one
\* whose response is not JSON.
CallFetcher(post_id, cs, rq, responses, fss, keep) ==
  \E resp \in responses :
  \E fs \in IF resp.kind = "json" /\ resp.post # None THEN fss ELSE {"ok"} :
  \E lib \in IF resp.kind = "not_json" THEN BOOLEAN ELSE {FALSE} :
    LET out == scrape_and_save_post_api(variant, post_id, scope, resp, fs, lib,
                                        dirs, files)
    IN /\ dirs' = out.dirs
       /\ files' = out.files
       /\ fetchLog' = out.log
       /\ crashed' = out.raised
       /\ calls' = Append(cs, post_id)
       /\ requests' = [rq EXCEPT !.api = @ + 1]
       /\ net' = IF out.raised THEN Push(net, "api")
                ELSE SleepAfterPost(Push(net, "api"))
       /\ last' = IF keep
                  THEN Some([post_id |-> post_id, scope |-> scope, resp |-> resp,
                             out |-> out])
                  ELSE last
       /\ report' = IF out.raised THEN "crashed" ELSE "fetched"
       /\ pc' = IF out.raised THEN "finally"
                ELSE IF pc = "download" /\ j < Len(post_ids) THEN "download"
                ELSE "loop"

\* One pass of `for j, post_id in enumerate(post_ids, 1)`
DownloadFrom(responses, fss, keep) ==
  /\ pc = "download"
  /\ j <= Len(post_ids)
  /\ CallFetcher(post_ids[j], calls, requests, responses, fss, keep)
  /\ j' = j + 1
  /\ UNCHANGED << variant, config, scope, urls, i, post_ids, current_url,
                  cfgWritten, lastPage, seen, scans, collected, collLog, keyWaits >>
Download == DownloadFrom(ApiResponses, {"ok", "mkdir_fail"}, FALSE)

\* elif '/posts/' in url: the single-post branch of the English program
SinglePost ==
  /\ pc = "loop"
  /\ i < Len(urls)
  /\ BranchOf(variant, urls[i + 1]) = "post"
  /\ i' = i + 1
  /\ collected' = None
  /\ collLog' = "none"
  /\ lastPage' = None
  /\ LET post_id == ParseInt(LastSegment(urls[i + 1].path))
     IN IF post_id = None
        THEN /\ report' = "bad_post_id"
             /\ calls' = << >>
             /\ requests' = NoRequests
             /\ fetchLog' = "none"
             /\ UNCHANGED << pc, dirs, files, crashed, net, last >>
        ELSE CallFetcher(Val(post_id), << >>, NoRequests, ApiResponses,
                         {"ok", "mkdir_fail"}, FALSE)
  /\ UNCHANGED << variant, config, scope, urls, post_ids, current_url, j,
                  cfgWritten, seen, scans, keyWaits >>

\* else: print("WARN: Unsupported URL format. Skipping.")
Unsupported ==
  /\ pc = "loop"
  /\ i < Len(urls)
  /\ BranchOf(variant, urls[i + 1]) = "other"
  /\ i' = i + 1
  /\ report' = "unsupported"
  /\ collected' = None
  /\ calls' = << >>
  /\ requests' = NoRequests
  /\ collLog' = "none"
  /\ fetchLog' = "none"
  /\ lastPage' = None
  /\ UNCHANGED << variant, pc, config, scope, urls, post_ids, current_url, j,
                  dirs, files, cfgWritten, net, seen, scans, last, keyWaits,
                  crashed >>

\* The loop is exhausted: print("All tasks completed successfully.")
Completed ==
  /\ pc = "loop"
  /\ i = Len(urls)
  /\ pc' = "finally"
  /\ UNCHANGED << variant, config, scope, urls, i, post_ids, current_url, j,
                  dirs, files, cfgWritten, net, lastPage, requests, seen, scans,
                  collected, calls, report, collLog, fetchLog, last, keyWaits,
                  crashed >>

\* finally: input("Press Enter to exit...")
ExitWithoutWait ==
  /\ pc = "finally"
  /\ pc' = "exited"
  /\ UNCHANGED << variant, config, scope, urls, i, post_ids, current_url, j,
                  dirs, files, cfgWritten, net, lastPage, requests, seen, scans,
                  collected, calls, report, collLog, fetchLog, last, keyWaits,
                  crashed >>
WaitForKey ==
  /\ pc = "finally"
  /\ keyWaits' = keyWaits + 1
  /\ pc' = "exited"
  /\ UNCHANGED << variant, config, scope, urls, i, post_ids, current_url, j,
                  dirs, files, cfgWritten, net, lastPage, requests, seen, scans,
                  collected, calls, report, collLog, fetchLog, last, crashed >>

Next ==
  \/ LoadConfig
  \/ LoadUrls
  \/ StartListing
  \/ ScanPage
  \/ AfterCollect
  \/ Download
  \/ SinglePost
  \/ Unsupported
  \/ Completed
  \/ WaitForKey

Spec == Init /\ [][Next]_vars

\* The program is sequential and every request carries timeout=30: the step
\* main stands at is taken.
FairSpec == Spec /\ WF_vars(Next)

\* ----------------------------------------------- the procedures on their own
\* A valid configuration, one listing target, the root directory made.
Running(sc) ==
  /\ variant \in Variants
  /\ config = ValidConfig(sc)
  /\ scope = sc
  /\ urls = << ListingUrl >>
  /\ i = 1
  /\ dirs = {RootDir}
  /\ files = << >>
  /\ cfgWritten = FALSE
  /\ seen = << >>
  /\ scans = "kept"
  /\ calls = << >>
  /\ fetchLog = "none"
  /\ last = None
  /\ keyWaits = 0
  /\ crashed = FALSE

\* get_all_post_ids called on a listing URL, over every shape of page.
InitCollect ==
  /\ Running("all")
  /\ pc = "collect"
  /\ post_ids = << >>
  /\ current_url = Some(ListingUrl)
  /\ j = 0
  /\ net = << >>
  /\ lastPage = None
  /\ requests = NoRequests
  /\ collected = None
  /\ report = "none"
  /\ collLog = "none"
ScanAnyPage == ScanPageFrom(AllPages, TRUE)
NextCollect == ScanAnyPage
SpecCollect == InitCollect /\ [][NextCollect]_vars
\* Every page request is answered or times out, and the loop goes on.
FairCollect == SpecCollect /\ WF_vars(NextCollect)

\* scrape_and_save_post_api called by the download loop on the one
\* identifier of a listing, over every post record and every scope.
InitFetch ==
  /\ \E sc \in {"all", "paid", "free"} : Running(sc)
  /\ pc = "download"
  /\ post_ids = << 10 >>
  /\ current_url = None
  /\ j = 1
  /\ net = << "page", "sleep" >>
  /\ lastPage = Some([kind |-> "ok", marker |-> "logged_in"])
  /\ requests = [pages |-> 1, api |-> 0]
  /\ collected = Some(<< 10 >>)
  /\ report = "downloading"
  /\ collLog = "last_page"
FetchAnyPost == DownloadFrom(AllApiResponses, FileSystems, TRUE)
NextFetch == FetchAnyPost
SpecFetch == InitFetch /\ [][NextFetch]_vars

\* ------------------------------------------------------------------ claims
NoRepeat(s) == \A a, b \in DOMAIN s : a # b => s[a] # s[b]
FirstAt(s, x) == CHOOSE k \in DOMAIN s : s[k] = x /\ \A m \in 1..(k - 1) : s[m] # x
ReturnedNormally == pc = "collected" /\ collLog \in {"last_page", "no_links"}

\* C1: when every page visited was retrievable and authenticated, the list
\* get_all_post_ids returns holds every identifier met on the pages visited,
\* each once, and an identifier first met earlier stands before every
\* identifier first met later.
C1_FirstEncounterOrder ==
  (ReturnedNormally /\ scans = "kept") =>
    /\ NoRepeat(post_ids)
    /\ Range(post_ids) = Range(seen)
    /\ \A a, b \in DOMAIN post_ids :
         a < b => FirstAt(seen, post_ids[a]) < FirstAt(seen, post_ids[b])

\* Page 1 shows 10 and 11 and an enabled next link, page 2 repeats 10 and
\* has no next link: the collector returns [10, 11].
C1_Witness ==
  /\ ReturnedNormally
  /\ collLog = "last_page"
  /\ requests.pages = 2
  /\ seen = << 10, 11, 10 >>
  /\ post_ids = << 10, 11 >>

\* The call the fetcher just made, when the step is one.
Called == last' # last
TheCall == Val(last')
NothingWritten == files' = files /\ dirs' = dirs

\* C3: scope 'paid' with is_paid false and scope 'free' with is_paid true
\* write no file and create no directory, and never reach the extraction;
\* scope 'all' reaches the body-text extraction for paid and free posts.
C3_ScopeFilter ==
  [][Called =>
       /\ (TheCall.scope = "paid" /\ TheCall.out.is_paid = Some(FALSE)) =>
            NothingWritten /\ ~TheCall.out.extraction /\ fetchLog' = "skip_free"
       /\ (TheCall.scope = "free" /\ TheCall.out.is_paid = Some(TRUE)) =>
            NothingWritten /\ ~TheCall.out.extraction /\ fetchLog' = "skip_paid"
       /\ (TheCall.scope = "all" /\ TheCall.out.is_paid # None) =>
            TheCall.out.extraction]_vars

\* A free post with text meets scope 'paid': skipped, nothing on disk.
C3_Witness ==
  /\ last # None
  /\ Val(last).scope = "paid"
  /\ Val(last).out.is_paid = Some(FALSE)
  /\ Val(last).resp.post # None
  /\ Val(Val(last).resp.post).comment = Some(<< "C" >>)
  /\ fetchLog = "skip_free"
  /\ files = << >>
  /\ dirs = {RootDir}

\* The segments' non-empty comments, in segment order.
HasComment(c) == c.comment # None /\ Val(c.comment) # << >>
SegmentComments(post) ==
  LET withText == SelectSeq(Contents(post), HasComment)
  IN [k \in DOMAIN withText |-> Val(withText[k].comment)]
RECURSIVE BlankLineJoined(_)
BlankLineJoined(texts) ==
  IF Len(texts) = 0 THEN << >>
  ELSE IF Len(texts) = 1 THEN texts[1]
  ELSE BlankLineJoined(SubSeq(texts, 1, Len(texts) - 1))
       \o << "\n", "\n" >> \o texts[Len(texts)]
NonEmpty(o) == o # None /\ Val(o) # << >>

\* C4: the body is the segments' non-empty comments joined by a blank line
\* when there is one, else the non-empty top-level comment, else the
\* non-empty blog_comment; with none of the three no file is written and the
\* warning is logged.
C4_BodyPrecedence ==
  [][(Called /\ TheCall.out.extraction) =>
       LET post == Val(TheCall.resp.post)
           body == TheCall.out.body
       IN IF SegmentComments(post) # << >>
          THEN body = Some(BlankLineJoined(SegmentComments(post)))
          ELSE IF NonEmpty(post.comment) THEN body = post.comment
          ELSE IF NonEmpty(post.blog_comment) THEN body = post.blog_comment
          ELSE body = None /\ NothingWritten /\ fetchLog' = "no_text"]_vars

\* Segments "A" and "B" next to a top-level comment and a blog_comment: the
\* file's body is "A\n\nB".
C4_Witness ==
  /\ last # None
  /\ Val(last).resp.post # None
  /\ Val(Val(last).resp.post).comment = Some(<< "C" >>)
  /\ Val(Val(last).resp.post).blog_comment = Some(<< "D" >>)
  /\ Val(last).out.body = Some(<< "A", "\n", "\n", "B" >>)
  /\ fetchLog = "saved"
  /\ \E path \in DOMAIN files : files[path].body = << "A", "\n", "\n", "B" >>

\* A segment that carries a plan whose price is greater than zero.
HasPaidPlan(c) == c.plan # None /\ Val(c.plan) # None /\ Val(Val(c.plan)) > 0

\* C5: is_paid is true exactly when a content segment carries a plan with a
\* price above zero; every post record gets a classification; and a post
\* classified free is skipped by scope 'paid' and goes on to the extraction
\* under scope 'free'.
C5_PaidClassification ==
  [][(Called /\ TheCall.resp.kind = "json" /\ ~NoPostData(TheCall.resp)) =>
       LET post == Val(TheCall.resp.post)
           paid == \E k \in DOMAIN Contents(post) : HasPaidPlan(Contents(post)[k])
       IN /\ TheCall.out.is_paid = Some(paid)
          /\ ~paid =>
               /\ TheCall.scope = "paid" => fetchLog' = "skip_free"
               /\ TheCall.scope = "free" => TheCall.out.extraction]_vars

\* Two segments, prices 0 and -1, under scope 'free': classified free, saved.
C5_Witness ==
  /\ last # None
  /\ Val(last).scope = "free"
  /\ Val(last).resp.post # None
  /\ Val(Val(last).resp.post).post_contents =
       Some(<< Segment(Some(Some(0)), Some(<< "A" >>)),
               Segment(Some(Some(-1)), None) >>)
  /\ Val(last).out.is_paid = Some(FALSE)
  /\ fetchLog = "saved"

\* The last page fetched for the current target was not retrievable, or its
\* login-state marker is missing or says the session is not logged in.
FailedPage ==
  /\ lastPage # None
  /\ \/ Val(lastPage).kind = "error"
     \/ Val(lastPage).marker \in {"absent", "logged_out"}

\* C2: once a page of the listing is not retrievable or shows the session as
\* unauthenticated, get_all_post_ids returns the empty list without raising,
\* whatever it had collected, and main fetches no post for the target.
C2_FailedCollection ==
  FailedPage =>
    /\ post_ids = << >>
    /\ pc \in {"collected", "loop", "finally", "exited"}
    /\ ~crashed
    /\ collected \in {None, Some(<< >>)}
    /\ calls = << >>
    /\ requests.api = 0

\* The second page of a listing shows a logged-out session: the identifiers
\* of the first page are dropped and the target is given up without a fetch.
C2_Witness ==
  /\ FailedPage
  /\ Val(lastPage).marker = "logged_out"
  /\ requests.pages = 2
  /\ collected = Some(<< >>)
  /\ report = "warn_failed_ids"
  /\ pc = "loop"

\* C6: the fetcher never raises to main, so main calls it once per collected
\* identifier, in collection order, whatever the earlier calls did; and the
\* loop over the targets goes on after a failing post or a failing listing:
\* it stops early only when the collector itself raises.
C6_EveryIdentifierFetched ==
  /\ pc = "download" =>
       /\ collected = Some(post_ids)
       /\ calls = SubSeq(post_ids, 1, j - 1)
  /\ (pc \in {"loop", "finally", "exited"} /\ collected # None
        /\ Val(collected) # << >>) =>
       calls = Val(collected)
  /\ (pc \in {"finally", "exited"} /\ 1 <= i /\ i < Len(urls)) =>
       lastPage = Some([kind |-> "ok", marker |-> "empty"])

\* The second target's listing gave [11, 10]; the fetch of 11 ended in the
\* catch-all handler and the loop stands at 10.
C6_Witness ==
  /\ pc = "download"
  /\ i = 2
  /\ post_ids = << 11, 10 >>
  /\ j = 2
  /\ calls = << 11 >>
  /\ fetchLog = "unexpected"

\* The three kinds of target URL.
KindOf(url) ==
  IF url.path[1] = Fanclubs THEN "listing"
  ELSE IF Len(url.path) = 2 /\ url.path[1] = Posts /\ ParseInt(url.path[2]) # None
       THEN "post"
  ELSE IF \A k \in DOMAIN url.path : url.path[k] \notin {Fanclubs, Posts}
       THEN "other"
  ELSE "none"

\* C7: a listing URL goes to the collector and then to the fetcher, a
\* single-post URL to one call of the fetcher without the collector, any
\* other URL to the unsupported-format warning without a request; in both
\* programs.
C7_ThreeWayDispatch ==
  i >= 1 =>
    /\ KindOf(urls[i]) = "listing" =>
         /\ pc \in {"loop", "finally", "exited"} /\ ~crashed =>
              collected # None /\ calls = Val(collected)
    /\ KindOf(urls[i]) = "post" =>
         /\ collected = None
         /\ requests = [pages |-> 0, api |-> 1]
         /\ calls = << Val(ParseInt(urls[i].path[2])) >>
         /\ pc \in {"loop", "finally", "exited"}
    /\ KindOf(urls[i]) = "other" =>
         /\ report = "unsupported"
         /\ requests = NoRequests
         /\ net = << >> \/ i > 1

\* The same for the English program alone.
C7_English == variant = "en" => C7_ThreeWayDispatch

\* A configuration error: no file, or a cookie or token that is missing,
\* empty or the template's, or a scope other than all, paid, free.
BadCredential(value) ==
  value = None \/ Val(value) = << >> \/ Val(value) = TemplateValue(variant)
ConfigError ==
  \/ config = None
  \/ BadCredential(Val(config).cookie)
  \/ BadCredential(Val(config).x_csrf_token)
  \/ Val(config).download_scope = Some("both")

\* C8: after load_config and the validation found a configuration error,
\* main has issued no request and created no directory or file, and only
\* waits for the key; a missing file has been replaced by the template.
C8_ConfigErrorIsFatal ==
  (pc # "start" /\ ConfigError) =>
    /\ pc \in {"finally", "exited"}
    /\ net = << >>
    /\ requests = NoRequests
    /\ urls = << >>
    /\ dirs = {}
    /\ files = << >>
    /\ cfgWritten = (config = None)

\* An empty cookie next to a valid token: main has ended, nothing was done.
C8_Witness ==
  /\ pc = "exited"
  /\ config # None
  /\ Val(config).cookie = Some(<< >>)
  /\ Val(config).x_csrf_token = Some(ValidValue)
  /\ Val(config).download_scope = None
  /\ Val(config).request_delay = None
  /\ ~crashed
  /\ net = << >>
  /\ dirs = {}

Requests == {"page", "stop_page", "api"}

\* C9 as stated: a sleep lies between any two consecutive requests.
C9_SleepBetweenAllRequests ==
  ~(Len(net) = 2 /\ net[1] \in Requests /\ net[2] \in Requests)

\* C9, amended: a sleep follows every post fetch and every listing page on
\* which post links were found, so it lies between such a request and the
\* next one; a listing page that fails, shows no login or has no post links
\* is followed by the next request without a sleep.
C9_SleepAfterFetchAndScan ==
  Len(net) = 2 =>
    /\ net[1] \in {"page", "api"} => net[2] = "sleep"
    /\ net[1] = "stop_page" => net[2] # "sleep"

\* Between the two post fetches of a listing.
C9_Witness ==
  /\ pc = "download"
  /\ j = 2
  /\ Len(post_ids) = 2
  /\ net = << "api", "sleep" >>

\* C10: a collection that ends on a page without post links is a normal end,
\* and main does not report the target as a failed identifier retrieval, the
\* report it gives after a login failure.
C10_EmptyPageIsNotAFailure ==
  (collLog = "no_links" /\ collected # None) => report # "warn_failed_ids"

\* C11: one file per post: a file written for one post keeps holding that
\* post's header and body to the end of the run; a later post of the run is
\* written to another path and does not replace it.
C11_OneFilePerPost ==
  [][\A path \in DOMAIN files :
       /\ path \in DOMAIN files'
       /\ files'[path].url = files[path].url]_vars

\* C12: the three fetch failures have each their own log outcome: an HTTP
\* call that errors is logged as an API request failure, a body that is not
\* JSON as a JSON decode failure, a body without the post object as missing
\* post data; in each case nothing is written and the fetcher returns.
C12_DistinctFetchFailures ==
  last # None =>
    LET call == Val(last)
        failure == IF call.resp.kind = "error" THEN "api_fail"
                   ELSE IF call.resp.kind = "not_json" THEN "json_fail"
                   ELSE IF call.resp.kind = "json" /\ NoPostData(call.resp)
                        THEN "no_post"
                   ELSE "none"
    IN failure # "none" =>
         /\ call.out.log = failure
         /\ fetchLog = failure
         /\ ~call.out.raised
         /\ files = << >>
         /\ dirs = {RootDir}

\* C13: main waits for the keypress exactly once, and as its last step; and
\* every execution comes to it, after completion, after the template was
\* generated, after a configuration error, after a missing or empty list and
\* after an exception in main, unless the collector goes on fetching pages
\* for ever.
C13_EndsWithKeypress ==
  /\ [](keyWaits <= 1 /\ ((pc = "exited") <=> (keyWaits = 1)))
  /\ [][(keyWaits' # keyWaits \/ pc' = "exited") =>
         (pc = "finally" /\ pc' = "exited" /\ keyWaits' = keyWaits + 1)]_vars
  /\ [][pc # "exited"]_vars
  /\ (<>(pc = "exited") \/ <>[](pc = "collect"))

\* An exception left the collector on the second target: the trace was
\* printed, the key was waited for, main is over.
C13_Witness ==
  /\ pc = "exited"
  /\ keyWaits = 1
  /\ crashed
  /\ report = "crashed"
  /\ i = 2

\* C14: get_all_post_ids terminates whatever next-page links the pages
\* carry: the collector eventually returns (or raises), also when a page's
\* next-page link leads to the page itself or to a page scanned earlier.
\* No page URL is fetched twice, here: twice in a row.
C14_CollectorTerminates ==
  /\ [][(pc = "collect" /\ pc' = "collect") => current_url' # current_url]_vars
  /\ <>(pc # "collect")

====
